---- MODULE Spec2Model ----
(***************************************************************************)
(* Model of src/flatjson.rs: parse_top_level_json and the recursive        *)
(* flatten_json, which turns a serde_json value tree into a flat Vec<Row>. *)
(* The recursion is unfolded into an explicit call stack of frames so that *)
(* the intermediate states of the row vector (placeholders, back-patches)  *)
(* are visible.  Row indices are 0-based as in the source; At(rows, i)     *)
(* reads the row at source index i.                                        *)
(***************************************************************************)
EXTENDS Integers, Sequences, FiniteSets, TLC

(* Bound on the number of nodes of the enumerated input value trees. *)
MaxNodes == 4

(***************************************************************************)
(* OptionIndex, Option<String>                                             *)
(***************************************************************************)
Nil == <<>>

Index(i) == <<i>>

None == <<>>

Some(k) == <<k>>

(* usize::MAX, narrowed to the model checker's integer width. *)
NIL == 2147483647

FromUsize(i) == IF i = NIL THEN Nil ELSE Index(i)

(***************************************************************************)
(* serde_json::Value (the input) and flatjson::Value (the row payload)     *)
(***************************************************************************)
SerdeNull == [kind |-> "Null"]

SerdeBool(b) == [kind |-> "Bool", b |-> b]

SerdeNumber(n) == [kind |-> "Number", n |-> n]

SerdeString(s) == [kind |-> "String", s |-> s]

SerdeArray(vs) == [kind |-> "Array", vs |-> vs]

(* obj is the map's entries in iteration order: a sequence of <<key, value>>. *)
SerdeObject(obj) == [kind |-> "Object", obj |-> obj]

ValueNull == [tag |-> "Null"]

ValueBoolean(b) == [tag |-> "Boolean", b |-> b]

ValueNumber(n) == [tag |-> "Number", n |-> n]

ValueString(s) == [tag |-> "String", s |-> s]

ValueEmptyObject == [tag |-> "EmptyObject"]

ValueEmptyArray == [tag |-> "EmptyArray"]

OpenContainer(ct, fc, ci) ==
    [tag |-> "OpenContainer", container_type |-> ct, first_child |-> fc, close_index |-> ci]

CloseContainer(ct, lc, oi) ==
    [tag |-> "CloseContainer", container_type |-> ct, last_child |-> lc, open_index |-> oi]

(***************************************************************************)
(* The inputs: every value tree of at most MaxNodes nodes over a small set *)
(* of scalars, the document of the unit test, and a text that fails to     *)
(* parse.                                                                  *)
(***************************************************************************)
KeyNames == <<"a", "b", "c", "d", "e", "f", "g", "h", "i", "j">>

Scalars == {SerdeNull, SerdeBool(TRUE), SerdeNumber(2), SerdeString("5")}

Leaves == Scalars \cup {SerdeArray(<<>>), SerdeObject(<<>>)}

Keyed(vs) == [j \in 1..Len(vs) |-> <<KeyNames[j], vs[j]>>]

RECURSIVE TreesOfSize(_), ForestsOfSize(_)
TreesOfSize(n) ==
    IF n = 1 THEN Leaves
    ELSE {SerdeArray(f) : f \in ForestsOfSize(n - 1)}
         \cup {SerdeObject(Keyed(f)) : f \in ForestsOfSize(n - 1)}

ForestsOfSize(m) ==
    IF m = 0 THEN {<<>>}
    ELSE UNION {{<<t>> \o f : t \in TreesOfSize(k), f \in ForestsOfSize(m - k)} : k \in 1..m}

OBJECT_1 ==
    SerdeObject(<<
        <<"a", SerdeNumber(2)>>,
        <<"b", SerdeArray(<<SerdeNumber(4), SerdeString("5")>>)>>,
        <<"c", SerdeObject(<<<<"d", SerdeNull>>, <<"e", SerdeBool(TRUE)>>, <<"f", SerdeNumber(9)>>>>)>>,
        <<"g", SerdeNumber(11)>>
    >>)

Ok(v) == <<v>>

Err == <<>>

Inputs ==
    {Ok(t) : t \in UNION {TreesOfSize(n) : n \in 1..MaxNodes}} \cup {Ok(OBJECT_1), Err}

(***************************************************************************)
(* State                                                                   *)
(***************************************************************************)
VARIABLES
    json,       \* result of serde_json::from_str on the input text
    flat_json,  \* the Vec<Row> being built
    parents,    \* the stack of parent indices
    stack,      \* the active calls of flatten_json, innermost last
    phase       \* "init", "flatten", "done" (Ok returned) or "err"

vars == <<json, flat_json, parents, stack, phase>>

At(rows, i) == rows[i + 1]

Top == stack[Len(stack)]

Pop(s) == SubSeq(s, 1, Len(s) - 1)

(* A call of flatten_json(serde_value, ..): its argument and its locals. *)
Call(v) ==
    [serde_value |-> v, pc |-> "entry", parent |-> Nil, depth |-> 0,
     open_index |-> 0, prev_sibling |-> Nil, child_index |-> 0, i |-> 0]

SetTop(f) == [stack EXCEPT ![Len(stack)] = f]

Init ==
    /\ json \in Inputs
    /\ flat_json = <<>>
    /\ parents = <<>>
    /\ stack = <<>>
    /\ phase = "init"

(***************************************************************************)
(* Pieces of flatten_json                                                  *)
(***************************************************************************)
(* Mutant: the parent is read from the bottom of the stack, not its top. *)
NewRowBottomParent(ps) ==
    [parent |-> ps[1], prev_sibling |-> Nil, next_sibling |-> Nil,
     depth |-> Len(ps) - 1, index |-> 0, key |-> None, value |-> ValueNull]

(* Mutant: depth is the stack's length, without the - 1. *)
NewRowDepthLen(ps) ==
    [parent |-> ps[Len(ps)], prev_sibling |-> Nil, next_sibling |-> Nil,
     depth |-> Len(ps), index |-> 0, key |-> None, value |-> ValueNull]

(* let depth = ..; let parent = ..; let row = Row {..} *)
NewRow(ps) ==
    [parent |-> ps[Len(ps)], prev_sibling |-> Nil, next_sibling |-> Nil,
     depth |-> Len(ps) - 1, index |-> 0, key |-> None, value |-> ValueNull]

ScalarValue(v) ==
    CASE v.kind = "Null" -> ValueNull
      [] v.kind = "Bool" -> ValueBoolean(v.b)
      [] v.kind = "Number" -> ValueNumber(v.n)
      [] v.kind = "String" -> ValueString(v.s)

IsEmpty(s) == Len(s) = 0

OpenRow(row, ct, open_index) ==
    [row EXCEPT !.value = OpenContainer(ct, open_index + 1, 0)]

(* Mutant: prev_sibling is the row before the child, not the sibling's entry row. *)
SetChildPrevRow(rows, child_index, i, prev_sibling) ==
    [rows EXCEPT ![child_index + 1].index = i,
                 ![child_index + 1].prev_sibling =
                     IF prev_sibling = Nil THEN Nil ELSE Index(child_index - 1)]

SetChild(rows, child_index, i, prev_sibling) ==
    [rows EXCEPT ![child_index + 1].index = i,
                 ![child_index + 1].prev_sibling = prev_sibling]

(* Mutant: the key goes to the last row pushed, not to the child's entry row. *)
SetKeyLastRow(rows, child_index, k) ==
    [rows EXCEPT ![Len(rows)].key = Some(k)]

SetKey(rows, child_index, k) ==
    [rows EXCEPT ![child_index + 1].key = Some(k)]

(* Mutant: next_sibling is written on the child, pointing back. *)
LinkPrevOnChild(rows, prev_sibling, child_index) ==
    IF prev_sibling # Nil
    THEN [rows EXCEPT ![child_index + 1].next_sibling = prev_sibling]
    ELSE rows

(* Mutant: the link is also written into the sibling's prev_sibling. *)
LinkPrevBothFields(rows, prev_sibling, child_index) ==
    IF prev_sibling # Nil
    THEN [rows EXCEPT ![prev_sibling[1] + 1].next_sibling = Index(child_index),
                      ![prev_sibling[1] + 1].prev_sibling = Index(child_index)]
    ELSE rows

LinkPrev(rows, prev_sibling, child_index) ==
    IF prev_sibling # Nil
    THEN [rows EXCEPT ![prev_sibling[1] + 1].next_sibling = Index(child_index)]
    ELSE rows

(* Mutant: the close row's parent is its own open row. *)
CloseRowSelfParent(parent, depth, ct, last_child, open_index) ==
    [parent |-> Index(open_index), prev_sibling |-> Nil, next_sibling |-> Nil,
     depth |-> depth, index |-> 0, key |-> None,
     value |-> CloseContainer(ct, last_child, open_index)]

(* Mutant: last_child is the first child. *)
CloseRowFirstChild(parent, depth, ct, last_child, open_index) ==
    [parent |-> parent, prev_sibling |-> Nil, next_sibling |-> Nil,
     depth |-> depth, index |-> 0, key |-> None,
     value |-> CloseContainer(ct, open_index + 1, open_index)]

CloseRow(parent, depth, ct, last_child, open_index) ==
    [parent |-> parent, prev_sibling |-> Nil, next_sibling |-> Nil,
     depth |-> depth, index |-> 0, key |-> None,
     value |-> CloseContainer(ct, last_child, open_index)]

(* Mutant: the open row's close_index is never patched. *)
SetCloseIndexSkipped(rows, open_index, close_index) == rows

SetCloseIndex(rows, open_index, close_index) ==
    IF At(rows, open_index).value.tag = "OpenContainer"
    THEN [rows EXCEPT ![open_index + 1].value.close_index = close_index]
    ELSE rows

(***************************************************************************)
(* Actions                                                                 *)
(***************************************************************************)
(* serde_json::from_str(&json)? fails: the error is returned unchanged. *)
ParseError ==
    /\ phase = "init"
    /\ json = Err
    /\ phase' = "err"
    /\ UNCHANGED <<json, flat_json, parents, stack>>

ParseTopLevelJson ==
    /\ phase = "init"
    /\ json # Err
    /\ flat_json' = <<>>
    /\ parents' = <<Nil>>
    /\ stack' = <<Call(json[1])>>
    /\ phase' = "flatten"
    /\ UNCHANGED json

(* Null, Bool, Number, String arms: push one row and return. *)
FlattenScalar ==
    /\ phase = "flatten" /\ stack # <<>>
    /\ Top.pc = "entry"
    /\ Top.serde_value.kind \in {"Null", "Bool", "Number", "String"}
    /\ flat_json' = Append(flat_json,
                           [NewRow(parents) EXCEPT !.value = ScalarValue(Top.serde_value)])
    /\ stack' = Pop(stack)
    /\ UNCHANGED <<json, parents, phase>>

(* Mutant: an empty array gets an open and a close row like any other. *)
FlattenEmptyArrayAsPair ==
    /\ phase = "flatten" /\ stack # <<>>
    /\ Top.pc = "entry"
    /\ Top.serde_value.kind = "Array"
    /\ IsEmpty(Top.serde_value.vs)
    /\ LET row == NewRow(parents)
           open_index == Len(flat_json)
       IN flat_json' = flat_json \o
            <<[row EXCEPT !.value = OpenContainer("Array", open_index + 1, open_index + 1)],
              [row EXCEPT !.value = CloseContainer("Array", 0, open_index)]>>
    /\ stack' = Pop(stack)
    /\ UNCHANGED <<json, parents, phase>>

FlattenEmptyArray ==
    /\ phase = "flatten" /\ stack # <<>>
    /\ Top.pc = "entry"
    /\ Top.serde_value.kind = "Array"
    /\ IsEmpty(Top.serde_value.vs)
    /\ flat_json' = Append(flat_json, [NewRow(parents) EXCEPT !.value = ValueEmptyArray])
    /\ stack' = Pop(stack)
    /\ UNCHANGED <<json, parents, phase>>

FlattenEmptyObject ==
    /\ phase = "flatten" /\ stack # <<>>
    /\ Top.pc = "entry"
    /\ Top.serde_value.kind = "Object"
    /\ IsEmpty(Top.serde_value.obj)
    /\ flat_json' = Append(flat_json, [NewRow(parents) EXCEPT !.value = ValueEmptyObject])
    /\ stack' = Pop(stack)
    /\ UNCHANGED <<json, parents, phase>>

(* Non-empty array: open_index, parents.push, the open row, the loop's locals. *)
ArrayOpen ==
    /\ phase = "flatten" /\ stack # <<>>
    /\ Top.pc = "entry"
    /\ Top.serde_value.kind = "Array"
    /\ ~IsEmpty(Top.serde_value.vs)
    /\ LET row == NewRow(parents)
           open_index == Len(flat_json)
       IN /\ parents' = Append(parents, Index(open_index))
          /\ flat_json' = Append(flat_json, OpenRow(row, "Array", open_index))
          /\ stack' = SetTop([Top EXCEPT !.pc = "loop", !.parent = row.parent,
                                         !.depth = row.depth, !.open_index = open_index,
                                         !.prev_sibling = Nil, !.child_index = 0, !.i = 0])
    /\ UNCHANGED <<json, phase>>

(* Loop head with an element left: child_index = flat_json.len(); flatten_json(v, ..). *)
ArrayChildCall ==
    /\ phase = "flatten" /\ stack # <<>>
    /\ Top.pc = "loop"
    /\ Top.serde_value.kind = "Array"
    /\ Top.i < Len(Top.serde_value.vs)
    /\ stack' = Append(SetTop([Top EXCEPT !.pc = "patch", !.child_index = Len(flat_json)]),
                       Call(Top.serde_value.vs[Top.i + 1]))
    /\ UNCHANGED <<json, flat_json, parents, phase>>

(* After the recursive call returned: the rest of the loop body. *)
ArrayChildPatch ==
    /\ phase = "flatten" /\ stack # <<>>
    /\ Top.pc = "patch"
    /\ Top.serde_value.kind = "Array"
    /\ flat_json' = LinkPrev(SetChild(flat_json, Top.child_index, Top.i, Top.prev_sibling),
                             Top.prev_sibling, Top.child_index)
    /\ stack' = SetTop([Top EXCEPT !.pc = "loop", !.prev_sibling = Index(Top.child_index),
                                   !.i = Top.i + 1])
    /\ UNCHANGED <<json, parents, phase>>

(* Loop exhausted: the close row, the open row's close_index, parents.pop, return. *)
ArrayClose ==
    /\ phase = "flatten" /\ stack # <<>>
    /\ Top.pc = "loop"
    /\ Top.serde_value.kind = "Array"
    /\ Top.i = Len(Top.serde_value.vs)
    /\ LET close_index == Len(flat_json)
           pushed == Append(flat_json, CloseRow(Top.parent, Top.depth, "Array",
                                                Top.child_index, Top.open_index))
       IN flat_json' = SetCloseIndex(pushed, Top.open_index, close_index)
    /\ parents' = Pop(parents)
    /\ stack' = Pop(stack)
    /\ UNCHANGED <<json, phase>>

ObjectOpen ==
    /\ phase = "flatten" /\ stack # <<>>
    /\ Top.pc = "entry"
    /\ Top.serde_value.kind = "Object"
    /\ ~IsEmpty(Top.serde_value.obj)
    /\ LET row == NewRow(parents)
           open_index == Len(flat_json)
       IN /\ parents' = Append(parents, Index(open_index))
          /\ flat_json' = Append(flat_json, OpenRow(row, "Object", open_index))
          /\ stack' = SetTop([Top EXCEPT !.pc = "loop", !.parent = row.parent,
                                         !.depth = row.depth, !.open_index = open_index,
                                         !.prev_sibling = Nil, !.child_index = 0, !.i = 0])
    /\ UNCHANGED <<json, phase>>

ObjectChildCall ==
    /\ phase = "flatten" /\ stack # <<>>
    /\ Top.pc = "loop"
    /\ Top.serde_value.kind = "Object"
    /\ Top.i < Len(Top.serde_value.obj)
    /\ stack' = Append(SetTop([Top EXCEPT !.pc = "patch", !.child_index = Len(flat_json)]),
                       Call(Top.serde_value.obj[Top.i + 1][2]))
    /\ UNCHANGED <<json, flat_json, parents, phase>>

ObjectChildPatch ==
    /\ phase = "flatten" /\ stack # <<>>
    /\ Top.pc = "patch"
    /\ Top.serde_value.kind = "Object"
    /\ LET k == Top.serde_value.obj[Top.i + 1][1]
           child == SetKey(SetChild(flat_json, Top.child_index, Top.i, Top.prev_sibling),
                           Top.child_index, k)
       IN flat_json' = LinkPrev(child, Top.prev_sibling, Top.child_index)
    /\ stack' = SetTop([Top EXCEPT !.pc = "loop", !.prev_sibling = Index(Top.child_index),
                                   !.i = Top.i + 1])
    /\ UNCHANGED <<json, parents, phase>>

ObjectClose ==
    /\ phase = "flatten" /\ stack # <<>>
    /\ Top.pc = "loop"
    /\ Top.serde_value.kind = "Object"
    /\ Top.i = Len(Top.serde_value.obj)
    /\ LET close_index == Len(flat_json)
           pushed == Append(flat_json, CloseRow(Top.parent, Top.depth, "Object",
                                                Top.child_index, Top.open_index))
       IN flat_json' = SetCloseIndex(pushed, Top.open_index, close_index)
    /\ parents' = Pop(parents)
    /\ stack' = Pop(stack)
    /\ UNCHANGED <<json, phase>>

(* The top-level flatten_json call returned: Ok(FlatJson(flat_json)). *)
ReturnOk ==
    /\ phase = "flatten"
    /\ stack = <<>>
    /\ phase' = "done"
    /\ UNCHANGED <<json, flat_json, parents, stack>>

Next ==
    \/ ParseError
    \/ ParseTopLevelJson
    \/ FlattenScalar
    \/ FlattenEmptyArray
    \/ FlattenEmptyObject
    \/ ArrayOpen
    \/ ArrayChildCall
    \/ ArrayChildPatch
    \/ ArrayClose
    \/ ObjectOpen
    \/ ObjectChildCall
    \/ ObjectChildPatch
    \/ ObjectClose
    \/ ReturnOk

Spec == Init /\ [][Next]_vars

(***************************************************************************)
(* The input tree's own structure, against which the rows are judged.      *)
(* Nothing below reads a field that flatten_json wrote: the positions      *)
(* follow from the layout rule alone (one row per scalar or empty          *)
(* container, an open and a close row around the rows of the children).    *)
(***************************************************************************)
Kids(v) ==
    IF v.kind = "Array" THEN v.vs
    ELSE IF v.kind = "Object" THEN [j \in 1..Len(v.obj) |-> v.obj[j][2]]
    ELSE <<>>

RECURSIVE NodeCount(_)
NodeCount(v) ==
    LET RECURSIVE Sum(_)
        Sum(j) == IF j = 0 THEN 0 ELSE NodeCount(Kids(v)[j]) + Sum(j - 1)
    IN 1 + Sum(Len(Kids(v)))

RECURSIVE NonEmptyCount(_)
NonEmptyCount(v) ==
    LET RECURSIVE Sum(_)
        Sum(j) == IF j = 0 THEN 0 ELSE NonEmptyCount(Kids(v)[j]) + Sum(j - 1)
    IN (IF Len(Kids(v)) > 0 THEN 1 ELSE 0) + Sum(Len(Kids(v)))

RECURSIVE RowSpan(_)
RowSpan(v) ==
    LET RECURSIVE Sum(_)
        Sum(j) == IF j = 0 THEN 0 ELSE RowSpan(Kids(v)[j]) + Sum(j - 1)
    IN IF Len(Kids(v)) = 0 THEN 1 ELSE 2 + Sum(Len(Kids(v)))

(* Entry index of the j-th child (1-based) of the container v whose open row is base. *)
RECURSIVE KidEntry(_, _, _)
KidEntry(v, base, j) ==
    IF j = 1 THEN base + 1
    ELSE KidEntry(v, base, j - 1) + RowSpan(Kids(v)[j - 1])

(* One descriptor per node of the subtree of v, v's own being d. *)
RECURSIVE Desc(_, _)
Desc(v, d) ==
    {d} \cup UNION {
        Desc(Kids(v)[j],
             [entry |-> KidEntry(v, d.entry, j),
              last |-> KidEntry(v, d.entry, j) + RowSpan(Kids(v)[j]) - 1,
              par |-> Index(d.entry),
              pos |-> j - 1,
              inObj |-> v.kind = "Object",
              prev |-> IF j = 1 THEN Nil ELSE Index(KidEntry(v, d.entry, j - 1)),
              nkids |-> Len(Kids(Kids(v)[j])),
              lastKid |-> IF Len(Kids(Kids(v)[j])) = 0 THEN Nil
                          ELSE Index(KidEntry(Kids(v)[j], KidEntry(v, d.entry, j),
                                              Len(Kids(Kids(v)[j]))))])
        : j \in 1..Len(Kids(v))}

RootDesc(v) ==
    [entry |-> 0, last |-> RowSpan(v) - 1, par |-> Nil, pos |-> 0, inObj |-> FALSE,
     prev |-> Nil, nkids |-> Len(Kids(v)),
     lastKid |-> IF Len(Kids(v)) = 0 THEN Nil ELSE Index(KidEntry(v, 0, Len(Kids(v))))]

(* The nodes of the flattened document; used in finished states only. *)
Nodes == Desc(json[1], RootDesc(json[1]))

Done == phase = "done"

Rows == 0..(Len(flat_json) - 1)

Tag(i) == At(flat_json, i).value.tag

(***************************************************************************)
(* Properties of the finished row sequence                                 *)
(***************************************************************************)
(* C1: in the finished sequence every OpenContainer row o has a close_index
   c that is a valid row index (past o, so never the placeholder 0), rows[c]
   is a CloseContainer of the same container type, and rows[c].open_index = o. *)
C1_OpenCloseSymmetry ==
    Done =>
        \A o \in Rows :
            Tag(o) = "OpenContainer" =>
                LET c == At(flat_json, o).value.close_index
                IN /\ c \in Rows
                   /\ c > o
                   /\ Tag(c) = "CloseContainer"
                   /\ At(flat_json, c).value.container_type
                        = At(flat_json, o).value.container_type
                   /\ At(flat_json, c).value.open_index = o

C1_Witness ==
    /\ Done
    /\ \E o \in Rows : o > 0 /\ Tag(o) = "OpenContainer"

(* C2: in the finished sequence, for all rows a and b, a's next_sibling is
   Index(b) exactly when b's prev_sibling is Index(a). *)
C2_SiblingSymmetry ==
    Done =>
        \A a, b \in Rows :
            (At(flat_json, a).next_sibling = Index(b))
                <=> (At(flat_json, b).prev_sibling = Index(a))

C2_Witness ==
    /\ Done
    /\ \E a, b \in Rows :
        /\ At(flat_json, a).next_sibling = Index(b)
        /\ Tag(a) = "OpenContainer"
        /\ b > a + 1

(* C3: the entry row of every value nested directly in a non-empty container
   has parent = Index(o), o being the container's open row; the entry row of
   the top-level value has parent = Nil. *)
C3_Parent ==
    Done => \A d \in Nodes : At(flat_json, d.entry).parent = d.par

C3_Witness ==
    /\ Done
    /\ \E d \in Nodes : d.par # Nil /\ d.par[1] > 0 /\ At(flat_json, d.entry).parent = d.par

(* C4: every CloseContainer row c with open_index o has the parent of the
   open row o, and never Index(o) itself. *)
C4_CloseParent ==
    Done =>
        \A c \in Rows :
            Tag(c) = "CloseContainer" =>
                LET o == At(flat_json, c).value.open_index
                IN /\ At(flat_json, c).parent = At(flat_json, o).parent
                   /\ At(flat_json, c).parent # Index(o)

C4_Witness ==
    /\ Done
    /\ \E c \in Rows : Tag(c) = "CloseContainer" /\ At(flat_json, c).parent # Nil

(* C5: the top-level row has depth 0 and every direct child of a container
   has the depth of the container's open row plus one. *)
C5_Depth ==
    Done =>
        \A d \in Nodes :
            IF d.par = Nil
            THEN At(flat_json, d.entry).depth = 0
            ELSE At(flat_json, d.entry).depth = At(flat_json, d.par[1]).depth + 1

C5_Witness ==
    /\ Done
    /\ \E d \in Nodes : d.par # Nil /\ At(flat_json, d.entry).depth = 2

(* C6: for every non-empty container with open row o and close row c,
   rows[o].first_child = o + 1 and rows[c].last_child is the entry index of
   the container's last direct child. *)
C6_FirstLastChild ==
    Done =>
        \A d \in Nodes :
            d.nkids > 0 =>
                /\ Tag(d.entry) = "OpenContainer"
                /\ At(flat_json, d.entry).value.first_child = d.entry + 1
                /\ Tag(d.last) = "CloseContainer"
                /\ Index(At(flat_json, d.last).value.last_child) = d.lastKid

C6_Witness ==
    /\ Done
    /\ \E d \in Nodes :
        /\ d.nkids > 1
        /\ Tag(d.lastKid[1]) = "OpenContainer"
        /\ At(flat_json, d.last).value.last_child = d.lastKid[1]

(* C7: a tree of n nodes with c non-empty containers flattens to exactly
   n + c rows: one per scalar or empty container, an open and a close row per
   non-empty container; a single scalar gives exactly one row. *)
C7_RowCount ==
    Done =>
        LET n == NodeCount(json[1])
            c == NonEmptyCount(json[1])
        IN /\ Len(flat_json) = n + c
           /\ Cardinality({i \in Rows : Tag(i) = "OpenContainer"}) = c
           /\ Cardinality({i \in Rows : Tag(i) = "CloseContainer"}) = c
           /\ Cardinality({i \in Rows : Tag(i) \notin {"OpenContainer", "CloseContainer"}})
                = n - c
           /\ (json[1].kind \in {"Null", "Bool", "Number", "String"} => Len(flat_json) = 1)

C7_Witness ==
    /\ Done
    /\ NonEmptyCount(json[1]) >= 2
    /\ \E i \in Rows : Tag(i) \in {"EmptyArray", "EmptyObject"}
    /\ Len(flat_json) = NodeCount(json[1]) + NonEmptyCount(json[1])

(* A row belongs to a direct child of an object: it is the entry row or the
   close row of a value that is a member of an object. *)
IsRowOfObjectChild(i) == \E d \in Nodes : d.inObj /\ (i = d.entry \/ i = d.last)

IsEntryOfObjectChild(i) == \E d \in Nodes : d.inObj /\ i = d.entry

(* C8 as stated: for every row, CloseContainer rows included, key is present
   exactly when the row is a direct child of an object. *)
C8_Original ==
    Done => \A i \in Rows : (At(flat_json, i).key # None) <=> IsRowOfObjectChild(i)

(* C8 as amended: key is present exactly on the entry rows of the direct
   children of objects; it is absent on the root, on array elements and on
   every CloseContainer row, also that of a container that is an object member. *)
C8_KeyPresence ==
    Done =>
        /\ \A i \in Rows : (At(flat_json, i).key # None) <=> IsEntryOfObjectChild(i)
        /\ \A i \in Rows : Tag(i) = "CloseContainer" => At(flat_json, i).key = None

C8_Witness ==
    /\ Done
    /\ \E i \in Rows :
        /\ Tag(i) = "CloseContainer"
        /\ IsRowOfObjectChild(i)
        /\ At(flat_json, i).key = None
        /\ At(flat_json, At(flat_json, i).value.open_index).key # None

(* The expectation of tests::test_flatten_json. *)
ExpectedPrevSiblings == <<NIL, NIL, 1, NIL, 3, NIL, 2, NIL, 7, 8, NIL, 6, NIL>>

(* C9: prev_sibling is the entry index of the preceding sibling on the entry
   row of a non-first child, and Nil on the root, on a first child and on
   every CloseContainer row; the test's document gives the 13 expected values. *)
C9_PrevSibling ==
    Done =>
        /\ \A d \in Nodes : At(flat_json, d.entry).prev_sibling = d.prev
        /\ \A i \in Rows : Tag(i) = "CloseContainer" => At(flat_json, i).prev_sibling = Nil
        /\ json = Ok(OBJECT_1) =>
            /\ Len(flat_json) = Len(ExpectedPrevSiblings)
            /\ \A i \in Rows :
                At(flat_json, i).prev_sibling = FromUsize(ExpectedPrevSiblings[i + 1])

C9_Witness ==
    /\ Done
    /\ json = Ok(OBJECT_1)
    /\ Len(flat_json) = 13
    /\ At(flat_json, 11).prev_sibling = Index(6)

(***************************************************************************)
(* The first child's row while the later children are flattened            *)
(***************************************************************************)
Frames == {stack[n] : n \in 1..Len(stack)}

(* The call f is a non-empty container whose second child's flatten_json
   call has been made. *)
SecondChildBegun(f) == f.pc # "entry" /\ (f.i >= 2 \/ (f.i = 1 /\ f.pc = "patch"))

(* ... whose second child's loop iteration has run to its end. *)
SecondChildLinked(f) == f.pc # "entry" /\ f.i >= 2

(* Entry rows of the first children of the containers with two or more
   children that are already closed. *)
ClosedFirstChildren ==
    {d.entry + 1 : d \in {e \in Nodes : e.nkids >= 2 /\ e.last < Len(flat_json)}}

FirstChildrenAfterSecondBegun ==
    IF phase = "flatten"
    THEN {f.open_index + 1 : f \in {g \in Frames : SecondChildBegun(g)}}
         \cup ClosedFirstChildren
    ELSE {}

FirstChildrenAfterSecondLinked ==
    IF phase = "flatten"
    THEN {f.open_index + 1 : f \in {g \in Frames : SecondChildLinked(g)}}
         \cup ClosedFirstChildren
    ELSE {}

WithoutNext(row) == [row EXCEPT !.next_sibling = Nil]

(* C10 as stated: from the moment the flattening of a container's second
   child begins, no field of the row at its first_child index is written
   again (so each already holds its final value). *)
C10_Original ==
    [][\A r \in FirstChildrenAfterSecondBegun : At(flat_json', r) = At(flat_json, r)]_vars

(* C10 as amended: from the moment the flattening of the second child
   begins, every field of the first child's row except next_sibling holds
   its final value and is not written again; next_sibling is still Nil then
   and is written once, to the second child's entry index, when the second
   child's call has returned; from then on the whole row is final. *)
C10_FirstChildBuilt ==
    [][/\ \A r \in FirstChildrenAfterSecondBegun :
            /\ WithoutNext(At(flat_json', r)) = WithoutNext(At(flat_json, r))
            /\ At(flat_json', r) # At(flat_json, r) =>
                /\ At(flat_json, r).next_sibling = Nil
                /\ Top.pc = "patch" /\ Top.i = 1 /\ Top.open_index + 1 = r
                /\ At(flat_json', r).next_sibling = Index(Top.child_index)
       /\ \A r \in FirstChildrenAfterSecondLinked : At(flat_json', r) = At(flat_json, r)
      ]_vars

C10_Witness ==
    /\ phase = "flatten"
    /\ \E f \in Frames :
        /\ f.pc = "loop" /\ f.i = 2
        /\ Tag(f.open_index + 1) = "OpenContainer"
        /\ At(flat_json, f.open_index + 1).next_sibling # Nil
        /\ At(flat_json, f.open_index + 1).value.close_index # 0

====
